---- MODULE Spec2Model ----
(***************************************************************************)
(* Model of the dispatch engine of src/app.py: do_send (the window loop,   *)
(* the per-recipient loop, the rate limit, the retry loop, the batch-level *)
(* except), SMTPSession.__enter__/__exit__ and backoff.                    *)
(*                                                                         *)
(* Time is counted in ticks of 1/TicksPerSec second, a unit in which every *)
(* value backoff() can return before the cap and every delay used here is  *)
(* a whole number.                                                         *)
(***************************************************************************)
EXTENDS Integers, Sequences, FiniteSets, TLC

\* ---------------------------------------------------------------- bounds
MaxRecipients == 2
MaxBatchSize == 2
MaxRetries == 2
\* largest attempt number backoff is called with in the check of backoff
MaxAttempt == 14
\* number of rows whose headers are built in the check of the headers
MaxHeaderRows == 2

\* ---------------------------------------------------------------- inputs
\* Cells of the email column: an address, and a cell holding only white
\* space (str(cell).strip() is then the empty string).
EmailCells == {"a@x.com", " "}

\* A row of df: its email cell and whether rendering the three templates
\* with the row as context succeeds (a row without an address is never
\* rendered, so one such row stands for both).
Rows == {r \in [email : EmailCells, tpl_ok : BOOLEAN] :
            r.email = " " => r.tpl_ok}

\* The "Use SSL" and "Use STARTTLS" boxes and whether both user name and
\* password are non-empty: the Gmail default (STARTTLS and login), implicit
\* TLS with login, and an anonymous relay over implicit TLS.
SessionConfigs ==
    {[use_ssl |-> FALSE, use_tls |-> TRUE, has_login |-> TRUE],
     [use_ssl |-> TRUE, use_tls |-> FALSE, has_login |-> TRUE],
     [use_ssl |-> TRUE, use_tls |-> FALSE, has_login |-> FALSE]}

\* "Rate per minute" values of a run.
Rates == {60}

\* smtp_code of an exception caught at the retry loop: no code at all
\* (disconnect, timeout, reset, refused recipients), a 4xx or a 5xx reply.
NoCode == -1
Codes == {NoCode, 450, 550}

VARIABLES
    df, batch_size, max_retries, dry_run, rate_per_min,
    use_ssl, use_tls, has_login,
    pc, b, idx, attempts, last_sent, sent_rows, failed_rows, error_rows,
    server, pending,
    now,
    conn, open_log, net_ops, send_log, sleeps, sent_log, last_gap,
    prev_send, waited, prev_ok, ok_gap, last_wait, send_via,
    bk, hd

config == <<df, batch_size, max_retries, dry_run, rate_per_min,
            use_ssl, use_tls, has_login>>
prog == <<pc, b, idx, attempts, last_sent, sent_rows, failed_rows,
          error_rows, server, pending>>
hist == <<conn, open_log, net_ops, send_log, sleeps, sent_log, last_gap,
          prev_send, waited, prev_ok, ok_gap, last_wait, send_via>>
\* State of the checks of the pure functions (backoff, the message headers);
\* do_send's run leaves it alone.
pure == <<bk, hd>>
vars == <<config, prog, now, hist, pure>>

\* ---------------------------------------------------------------- helpers
Min(x, y) == IF x < y THEN x ELSE y
Max(x, y) == IF x > y THEN x ELSE y

TicksPerSec == 5 * 2048

\* time.time() when the run starts: the epoch clock is far beyond any delay.
StartTime == 1000 * TicksPerSec

\* str(row[email_col]).strip()
Strip(s) == IF s = " " THEN "" ELSE s

\* total = len(df)
total == Len(df)

\* delay = 60.0 / max(1, rate_per_min)
delay == (60 * TicksPerSec) \div Max(1, rate_per_min)

\* batches rounded down instead of up
Batches_Floor(n, bs) == n \div bs

\* batches = (total + int(batch_size) - 1) // int(batch_size)
Batches(n, bs) == (n + bs - 1) \div bs

batches == Batches(total, batch_size)

\* start_i = b * batch_size ; end_i = min(total, (b + 1) * batch_size)
\* (0-based, end exclusive, as in the code)
start_i == b * batch_size

\* end_i without the window's own end
end_i_Total == total

end_i == Min(total, (b + 1) * batch_size)

\* df.iloc[i] for a 0-based i
Row(i) == df[i + 1]

\* backoff: wait = min(cap, base ** (attempt - 1)), base = 1.5, cap = 60.0.
\* base ** k is computed by repeated multiplication by 3/2; once the cap is
\* reached every later value is the cap too.
BackoffCap == 60 * TicksPerSec

\* wait without the cap
RECURSIVE BackoffWait_NoCap(_)
BackoffWait_NoCap(attempt) ==
    IF attempt <= 1 THEN TicksPerSec
    ELSE (BackoffWait_NoCap(attempt - 1) * 3) \div 2

RECURSIVE BackoffWait(_)
BackoffWait(attempt) ==
    IF attempt <= 1 THEN TicksPerSec
    ELSE Min(BackoffCap, (BackoffWait(attempt - 1) * 3) \div 2)

\* jitter = 0.2 * wait * (2 * (uuid4().int % 2) - 1); max(0.0, wait + jitter)
\* bit is uuid4().int % 2.
Backoff(attempt, bit) ==
    LET wait == BackoffWait(attempt)
        jitter == (wait \div 5) * (2 * bit - 1)
    IN Max(0, wait + jitter)

\* transient without the upper bound of the 4xx range
IsTransient_NoUpper(code) == code = NoCode \/ 400 <= code

\* transient = (code is None) or (400 <= int(code) < 500)
IsTransient(code) == code = NoCode \/ (400 <= code /\ code < 500)

\* give up on permanent failures only
GiveUp_Never(code, att) == ~IsTransient(code)

\* if not transient or attempts >= int(max_retries): give up
GiveUp(code, att) == ~IsTransient(code) \/ att >= max_retries

\* Steps of SMTPSession.__enter__ that can raise, given the configuration.
\* "connect" is the SMTP / SMTP_SSL constructor: when it raises, self.server
\* is still None.  The others raise after self.server was assigned.
EnterSteps ==
    {"connect"}
    \cup (IF use_ssl THEN {} ELSE {"ehlo"})
    \cup (IF ~use_ssl /\ use_tls THEN {"starttls"} ELSE {})
    \cup (IF has_login THEN {"login"} ELSE {})

\* Sequences over S of length 1..n
SeqsUpTo(S, n) == UNION {[1..k -> S] : k \in 1..n}

\* bk and hd while do_send runs: no call of backoff under check, no message
\* under construction.
BkIdle == [attempt |-> 0, bit |-> 0, wait |-> -1, ret |-> -1,
           prev_attempt |-> 0, prev_wait |-> -1]
HdIdle == [phase |-> "idle"]

\* ---------------------------------------------------------------- Init
Init ==
    /\ df \in SeqsUpTo(Rows, MaxRecipients)
    /\ batch_size \in 1..MaxBatchSize
    /\ max_retries \in 0..MaxRetries
    /\ dry_run \in BOOLEAN
    /\ rate_per_min \in Rates
    /\ \E c \in SessionConfigs :
          /\ use_ssl = c.use_ssl
          /\ use_tls = c.use_tls
          /\ has_login = c.has_login
    \* "Start Sending" refuses a real run without user name and password
    /\ (~dry_run => has_login)
    /\ pc = "batch"
    /\ b = 0
    /\ idx = 0
    /\ attempts = 0
    /\ last_sent = 0
    /\ sent_rows = 0
    /\ failed_rows = 0
    /\ error_rows = <<>>
    /\ server = "None"
    /\ pending = FALSE
    /\ now = StartTime
    /\ conn = [w \in 0..(batches - 1) |-> "none"]
    /\ open_log = <<>>
    /\ net_ops = {}
    /\ send_log = [i \in 0..(total - 1) |-> <<>>]
    /\ sleeps = [i \in 0..(total - 1) |-> 0]
    /\ sent_log = <<>>
    /\ last_gap = -1
    /\ prev_send = -1
    /\ waited = 0
    /\ prev_ok = -1
    /\ ok_gap = -1
    /\ last_wait = [slept |-> 0, first |-> TRUE]
    /\ send_via = [i \in 0..(total - 1) |-> {}]
    /\ bk = BkIdle
    /\ hd = HdIdle

\* ---------------------------------------------------------------- history
\* The variables of hist record what happened; the program never reads them.
\*   conn[w]      transport connection of window w's session: "none" (never
\*                established), "open", "quit" (quit attempted and returned),
\*                "quit_err" (quit attempted and raised)
\*   open_log     one entry per SMTPSession.__enter__ call: window, result
\*   net_ops      network operations performed so far
\*   send_log[i]  result of every Session.send invocation for row i, in order:
\*                res is "ok", "caught" (raised an exception of the retry
\*                loop's except clause, with its smtp_code) or "raise"
\*   sleeps[i]    number of backoff sleeps taken for row i
\*   sent_log     rows counted in sent_rows, in order
\*   prev_send    time of the latest Session.send invocation on the current
\*                session (-1: none yet)
\*   last_gap     time between the latest Session.send invocation and the one
\*                before it on the same session (-1: no such pair)
\*   waited       number of rate-limit sleeps taken
\*   prev_ok      time the latest successful Session.send on the current
\*                session returned (-1: none yet)
\*   ok_gap       at the latest Session.send invocation, the time since
\*                prev_ok (-1: no successful send on the session before it)
\*   last_wait    the latest rate-limit step: how long it slept, and whether
\*                no send had succeeded on the session before it
\*   send_via[i]  for every Session.send invocation for row i: the window
\*                whose session was used, the state of its connection, and
\*                whether its __enter__ had returned

\* How long one sendmail call takes.
SendDurations == {0, TicksPerSec \div 2}

\* The steps of __enter__ in the order the code runs them.
EnterOrder == <<"connect", "ehlo", "starttls", "login">>

StepPos(step) == CHOOSE k \in 1..Len(EnterOrder) : EnterOrder[k] = step

\* The network operations __enter__ has started when it is at `step`.
OpsUpTo(step) ==
    {EnterOrder[k] : k \in {j \in 1..StepPos(step) : EnterOrder[j] \in EnterSteps}}

\* to_addr of the row being processed
to_addr == Strip(Row(idx).email)

\* `break` in place of `continue`: the window ends after any row
AfterRow_Exit(i) == "exit"

\* Where the body of `for idx in range(start_i, end_i)` goes after row i:
\* the next row, or out of the with-block.
AfterRow(i) == IF i + 1 < end_i THEN "row" ELSE "exit"

\* a rate limit that never sleeps
RateSleep_Never == 0 * delay

\* Rate limit: elapsed = time.time() - last_sent;
\* if elapsed < delay: time.sleep(delay - elapsed)
RateSleep == IF now - last_sent < delay THEN delay - (now - last_sent) ELSE 0

\* Session.send is invoked at time t for row i
NoteSend(i, t, res) ==
    /\ send_log' = [send_log EXCEPT ![i] = Append(@, res)]
    /\ last_gap' = IF prev_send = -1 THEN -1 ELSE t - prev_send
    /\ prev_send' = t
    /\ net_ops' = net_ops \cup {"sendmail"}
    /\ ok_gap' = IF prev_ok = -1 THEN -1 ELSE t - prev_ok
    /\ send_via' = [send_via EXCEPT ![i] = @ \cup
          {[w |-> b, conn |-> conn[b],
            entered |-> (open_log # <<>> /\
                         open_log[Len(open_log)] = [w |-> b, res |-> "ok"])]}]

\* ---------------------------------------------------------------- actions
\* with SMTPSession(...) as mailer: __enter__ returns; last_sent = 0.0
EnterOK ==
    /\ pc = "batch" /\ b < batches
    /\ server' = "conn"
    /\ conn' = [conn EXCEPT ![b] = "open"]
    /\ open_log' = Append(open_log, [w |-> b, res |-> "ok"])
    /\ net_ops' = net_ops \cup EnterSteps
    /\ last_sent' = 0
    /\ prev_send' = -1
    /\ idx' = start_i
    /\ pc' = "row"
    /\ prev_ok' = -1
    /\ UNCHANGED <<config, pure, ok_gap, last_wait, send_via, b, attempts,
                   sent_rows, failed_rows, error_rows, pending, now, send_log,
                   sleeps, sent_log, last_gap, waited>>

\* __enter__ raises at `step`.  The with statement does not call __exit__
\* when __enter__ raises; the exception reaches the batch-level except.
EnterFail(step) ==
    /\ pc = "batch" /\ b < batches
    /\ step \in EnterSteps
    /\ server' = IF step = "connect" THEN "None" ELSE "conn"
    /\ conn' = [conn EXCEPT ![b] = IF step = "connect" THEN "none" ELSE "open"]
    /\ open_log' = Append(open_log, [w |-> b, res |-> step])
    /\ net_ops' = net_ops \cup OpsUpTo(step)
    /\ pending' = TRUE
    /\ pc' = "except"
    /\ UNCHANGED <<config, pure, prev_ok, ok_gap, last_wait, send_via, b, idx,
                   attempts, last_sent, sent_rows, failed_rows, error_rows,
                   now, send_log, sleeps, sent_log, last_gap, prev_send,
                   waited>>

\* if not to_addr: failed_rows += 1; error_rows.append(...); continue
MissingEmail ==
    /\ pc = "row"
    /\ to_addr = ""
    /\ failed_rows' = failed_rows + 1
    /\ error_rows' = Append(error_rows,
          [row |-> idx, email |-> "", code |-> NoCode,
           error |-> "missing recipient email"])
    /\ pc' = AfterRow(idx)
    /\ idx' = idx + 1
    /\ UNCHANGED <<config, pure, b, attempts, last_sent, sent_rows, server,
                   pending, now, hist>>

\* render_template raises: failed_rows += 1; error_rows.append(...); continue
TemplateError ==
    /\ pc = "row"
    /\ to_addr # ""
    /\ ~Row(idx).tpl_ok
    /\ failed_rows' = failed_rows + 1
    /\ error_rows' = Append(error_rows,
          [row |-> idx, email |-> to_addr, code |-> NoCode,
           error |-> "template_error"])
    /\ pc' = AfterRow(idx)
    /\ idx' = idx + 1
    /\ UNCHANGED <<config, pure, b, attempts, last_sent, sent_rows, server,
                   pending, now, hist>>

\* a dry-run iteration that stamps last_sent
DryRunRow_Stamp ==
    /\ pc = "row"
    /\ to_addr # ""
    /\ Row(idx).tpl_ok
    /\ dry_run
    /\ now' = now + RateSleep
    /\ waited' = IF RateSleep > 0 THEN waited + 1 ELSE waited
    /\ last_sent' = now + RateSleep
    /\ sent_rows' = sent_rows + 1
    /\ sent_log' = Append(sent_log, idx)
    /\ pc' = AfterRow(idx)
    /\ idx' = idx + 1
    /\ last_wait' = [slept |-> RateSleep, first |-> (prev_ok = -1)]
    /\ UNCHANGED <<config, pure, prev_ok, ok_gap, send_via, b, attempts,
                   failed_rows, error_rows, server, pending, conn, open_log,
                   net_ops, send_log, sleeps, last_gap, prev_send>>

\* rate limit, then: if dry_run: sent_rows += 1; continue
DryRunRow ==
    /\ pc = "row"
    /\ to_addr # ""
    /\ Row(idx).tpl_ok
    /\ dry_run
    /\ now' = now + RateSleep
    /\ waited' = IF RateSleep > 0 THEN waited + 1 ELSE waited
    /\ sent_rows' = sent_rows + 1
    /\ sent_log' = Append(sent_log, idx)
    /\ pc' = AfterRow(idx)
    /\ idx' = idx + 1
    /\ last_wait' = [slept |-> RateSleep, first |-> (prev_ok = -1)]
    /\ UNCHANGED <<config, pure, prev_ok, ok_gap, send_via, b, attempts,
                   last_sent, failed_rows, error_rows, server, pending, conn,
                   open_log, net_ops, send_log, sleeps, last_gap, prev_send>>

\* rate limit, then: attempts = 0; while True: ...
BeginSend ==
    /\ pc = "row"
    /\ to_addr # ""
    /\ Row(idx).tpl_ok
    /\ ~dry_run
    /\ now' = now + RateSleep
    /\ waited' = IF RateSleep > 0 THEN waited + 1 ELSE waited
    /\ attempts' = 0
    /\ pc' = "attempt"
    /\ last_wait' = [slept |-> RateSleep, first |-> (prev_ok = -1)]
    /\ UNCHANGED <<config, pure, prev_ok, ok_gap, send_via, b, idx, last_sent,
                   sent_rows, failed_rows, error_rows, server, pending, conn,
                   open_log, net_ops, send_log, sleeps, sent_log, last_gap,
                   prev_send>>

\* attempts += 1; mailer.send(...) returns; last_sent = time.time();
\* sent_rows += 1; break
SendOK(d) ==
    /\ pc = "attempt"
    /\ attempts' = attempts + 1
    /\ NoteSend(idx, now, [res |-> "ok", code |-> NoCode])
    /\ now' = now + d
    /\ last_sent' = now + d
    /\ sent_rows' = sent_rows + 1
    /\ sent_log' = Append(sent_log, idx)
    /\ pc' = AfterRow(idx)
    /\ idx' = idx + 1
    /\ prev_ok' = now + d
    /\ UNCHANGED <<config, pure, last_wait, b, failed_rows, error_rows,
                   server, pending, conn, open_log, sleeps, waited>>

\* attempts += 1; mailer.send(...) raises one of the exceptions of the
\* except clause; the retry loop gives up or sleeps backoff(attempts)
SendCaught(code, d, bit) ==
    /\ pc = "attempt"
    /\ attempts' = attempts + 1
    /\ NoteSend(idx, now, [res |-> "caught", code |-> code])
    /\ IF GiveUp(code, attempts + 1)
       THEN /\ bit = 0
            /\ failed_rows' = failed_rows + 1
            /\ error_rows' = Append(error_rows,
                  [row |-> idx, email |-> to_addr, code |-> code,
                   error |-> "smtp_error"])
            /\ now' = now + d
            /\ pc' = AfterRow(idx)
            /\ idx' = idx + 1
            /\ UNCHANGED sleeps
       ELSE /\ now' = now + d + Backoff(attempts + 1, bit)
            /\ sleeps' = [sleeps EXCEPT ![idx] = @ + 1]
            /\ UNCHANGED <<failed_rows, error_rows, pc, idx>>
    /\ UNCHANGED <<config, pure, prev_ok, last_wait, b, last_sent, sent_rows,
                   server, pending, conn, open_log, sent_log, waited>>

\* attempts += 1; mailer.send(...) raises an exception the except clause of
\* the retry loop does not list: it leaves the with-block
SendRaise(d) ==
    /\ pc = "attempt"
    /\ attempts' = attempts + 1
    /\ NoteSend(idx, now, [res |-> "raise", code |-> NoCode])
    /\ now' = now + d
    /\ pending' = TRUE
    /\ pc' = "exit"
    /\ UNCHANGED <<config, pure, prev_ok, last_wait, b, idx, last_sent,
                   sent_rows, failed_rows, error_rows, server, conn, open_log,
                   sleeps, sent_log, waited>>

\* __exit__: if self.server: self.server.quit(), any exception swallowed.
\* It returns None, so a pending exception goes on to the batch-level except.
ExitSession(quit_ok) ==
    /\ pc = "exit"
    /\ IF server # "None"
       THEN /\ conn' = [conn EXCEPT ![b] = IF quit_ok THEN "quit" ELSE "quit_err"]
            /\ net_ops' = net_ops \cup {"quit"}
       ELSE UNCHANGED <<conn, net_ops>>
    /\ IF pending
       THEN /\ pc' = "except"
            /\ UNCHANGED b
       ELSE /\ pc' = "batch"
            /\ b' = b + 1
    /\ UNCHANGED <<config, pure, prev_ok, ok_gap, last_wait, send_via, idx,
                   attempts, last_sent, sent_rows, failed_rows, error_rows,
                   server, pending, now, open_log, send_log, sleeps, sent_log,
                   last_gap, prev_send, waited>>

\* batch records for every row from start_i to the end of df
BatchRecords_ToEnd ==
    [k \in 1..(total - start_i) |->
        [row |-> start_i + k - 1, email |-> Row(start_i + k - 1).email,
         code |-> NoCode, error |-> "batch_error"]]

\* except Exception as e: for idx in range(start_i, end_i):
\*     failed_rows += 1; error_rows.append({... "batch_error: ..."})
BatchRecords ==
    [k \in 1..(end_i - start_i) |->
        [row |-> start_i + k - 1, email |-> Row(start_i + k - 1).email,
         code |-> NoCode, error |-> "batch_error"]]

BatchExcept ==
    /\ pc = "except"
    /\ failed_rows' = failed_rows + Len(BatchRecords)
    /\ error_rows' = error_rows \o BatchRecords
    /\ idx' = end_i - 1
    /\ pending' = FALSE
    /\ b' = b + 1
    /\ pc' = "batch"
    /\ UNCHANGED <<config, pure, attempts, last_sent, sent_rows, server, now,
                   hist>>

\* st.success(f"Done. Sent: {sent_rows} | Failed: {failed_rows}")
Finish ==
    /\ pc = "batch" /\ b >= batches
    /\ pc' = "done"
    /\ UNCHANGED <<config, pure, b, idx, attempts, last_sent, sent_rows,
                   failed_rows, error_rows, server, pending, now, hist>>

Next ==
    \/ EnterOK
    \/ \E step \in {"connect", "ehlo", "starttls", "login"} : EnterFail(step)
    \/ MissingEmail
    \/ TemplateError
    \/ DryRunRow
    \/ BeginSend
    \/ \E d \in SendDurations : SendOK(d)
    \/ \E code \in Codes, d \in SendDurations, bit \in {0, 1} : SendCaught(code, d, bit)
    \/ \E d \in SendDurations : SendRaise(d)
    \/ \E quit_ok \in BOOLEAN : ExitSession(quit_ok)
    \/ BatchExcept
    \/ Finish

Spec == Init /\ [][Next]_vars

\* ---------------------------------------------------------------- backoff
\* backoff(attempt) on its own: the inputs are drawn from 1..MaxAttempt and
\* the two values of uuid4().int % 2, BackoffCall computes the wait before
\* jitter and the returned value, BackoffNext moves on to another call and
\* remembers the attempt and wait of the call before.

\* The variables of do_send while a pure function is checked: no run.
NoRun ==
    /\ df = <<>>
    /\ batch_size = 1
    /\ max_retries = 0
    /\ dry_run = TRUE
    /\ rate_per_min = 60
    /\ use_ssl = FALSE
    /\ use_tls = TRUE
    /\ has_login = FALSE
    /\ pc = "idle"
    /\ b = 0
    /\ idx = 0
    /\ attempts = 0
    /\ last_sent = 0
    /\ sent_rows = 0
    /\ failed_rows = 0
    /\ error_rows = <<>>
    /\ server = "None"
    /\ pending = FALSE
    /\ now = StartTime
    /\ conn = <<>>
    /\ open_log = <<>>
    /\ net_ops = {}
    /\ send_log = <<>>
    /\ sleeps = <<>>
    /\ sent_log = <<>>
    /\ last_gap = -1
    /\ prev_send = -1
    /\ waited = 0
    /\ prev_ok = -1
    /\ ok_gap = -1
    /\ last_wait = [slept |-> 0, first |-> TRUE]
    /\ send_via = <<>>

InitBackoff ==
    /\ NoRun
    /\ hd = HdIdle
    /\ \E a \in 1..MaxAttempt, bit \in {0, 1} :
          bk = [attempt |-> a, bit |-> bit, wait |-> -1, ret |-> -1,
                prev_attempt |-> 0, prev_wait |-> -1]

\* wait = min(cap, base ** (attempt - 1)); return max(0.0, wait + jitter)
BackoffCall ==
    /\ bk.wait = -1
    /\ bk' = [bk EXCEPT !.wait = BackoffWait(bk.attempt),
                        !.ret = Backoff(bk.attempt, bk.bit)]
    /\ UNCHANGED <<config, prog, now, hist, hd>>

\* the next call of backoff, with attempt a and jitter bit `bit`
BackoffNext(a, bit) ==
    /\ bk.wait # -1
    /\ bk' = [attempt |-> a, bit |-> bit, wait |-> -1, ret |-> -1,
              prev_attempt |-> bk.attempt, prev_wait |-> bk.wait]
    /\ UNCHANGED <<config, prog, now, hist, hd>>

NextBackoff ==
    \/ BackoffCall
    \/ \E a \in 1..MaxAttempt, bit \in {0, 1} : BackoffNext(a, bit)

SpecBackoff == InitBackoff /\ [][NextBackoff]_vars

\* ---------------------------------------------------------------- headers
\* The headers of one message on their own: the static headers built once in
\* do_send, the per-row headers built in the retry loop, and the headers
\* Session.send puts on the message.

\* "Reply-To" and "List-Unsubscribe" inputs of the form ("" = left blank)
ReplyTos == {"", "r@x.com"}
ListUnsubs == {"", "<mailto:u@x.com>", "https://x.com/unsub"}

\* Cells of the unsubscribe_url column: an empty CSV cell (read as NaN), a
\* cell of white space, a URL, a URL with white space around it.
UnsubCells == {"NaN", " ", "https://x.com/u/1", " https://x.com/u/2 "}

\* str(row["unsubscribe_url"]).strip()
StripCell(c) ==
    IF c = " " THEN ""
    ELSE IF c = " https://x.com/u/2 " THEN "https://x.com/u/2"
    ELSE c

OneClick == "List-Unsubscribe=One-Click"

\* {} and d[k] = v of a Python dict
EmptyDict == [k \in {} |-> ""]
DictSet(d, k, v) == (k :> v) @@ d

\* headers_static = {}; if reply_to: ...; if list_unsub: ...
HeadersStatic(reply_to, list_unsub) ==
    LET h1 == IF reply_to # "" THEN DictSet(EmptyDict, "Reply-To", reply_to)
              ELSE EmptyDict
    IN IF list_unsub # ""
       THEN DictSet(DictSet(h1, "List-Unsubscribe", list_unsub),
                    "List-Unsubscribe-Post", OneClick)
       ELSE h1

\* headers = dict(headers_static); if "unsubscribe_url" in row and
\* pd.notna(row["unsubscribe_url"]) and "List-Unsubscribe" not in headers: ...
RowHeaders(static, has_col, cell) ==
    IF has_col /\ cell # "NaN" /\ "List-Unsubscribe" \notin DOMAIN static
    THEN DictSet(DictSet(static, "List-Unsubscribe", StripCell(cell)),
                 "List-Unsubscribe-Post", OneClick)
    ELSE static

\* for k, v in headers.items(): if v: msg[k] = v
MsgHeaders(headers) ==
    [k \in {x \in DOMAIN headers : headers[x] # ""} |-> headers[k]]

InitHeaders ==
    /\ NoRun
    /\ bk = BkIdle
    /\ \E r \in ReplyTos, l \in ListUnsubs, c \in BOOLEAN, u \in UnsubCells :
          hd = [phase |-> "start", row |-> 0, reply_to |-> r, list_unsub |-> l,
                has_col |-> c, cell |-> IF c THEN u ELSE "NaN",
                headers_static |-> EmptyDict, headers |-> EmptyDict,
                msg |-> EmptyDict]

\* do_send builds headers_static
BuildStatic ==
    /\ hd.phase = "start"
    /\ hd' = [hd EXCEPT !.phase = "static",
                        !.headers_static = HeadersStatic(hd.reply_to, hd.list_unsub)]
    /\ UNCHANGED <<config, prog, now, hist, bk>>

\* the retry loop builds the headers of the row
BuildRowHeaders ==
    /\ hd.phase = "static"
    /\ hd' = [hd EXCEPT !.phase = "row",
                        !.headers = RowHeaders(hd.headers_static, hd.has_col, hd.cell)]
    /\ UNCHANGED <<config, prog, now, hist, bk>>

\* Session.send copies the headers with a non-empty value to the message
SendMessage ==
    /\ hd.phase = "row"
    /\ hd' = [hd EXCEPT !.phase = "sent", !.msg = MsgHeaders(hd.headers)]
    /\ UNCHANGED <<config, prog, now, hist, bk>>

\* the next row of df, with its own unsubscribe_url cell
NextRowCell(u) ==
    /\ hd.phase = "sent"
    /\ hd.has_col
    /\ hd.row + 1 < MaxHeaderRows
    /\ hd' = [hd EXCEPT !.phase = "static", !.row = @ + 1, !.cell = u,
                        !.headers = EmptyDict, !.msg = EmptyDict]
    /\ UNCHANGED <<config, prog, now, hist, bk>>

NextHeaders ==
    \/ BuildStatic
    \/ BuildRowHeaders
    \/ SendMessage
    \/ \E u \in UnsubCells : NextRowCell(u)

SpecHeaders == InitHeaders /\ [][NextHeaders]_vars

\* ---------------------------------------------------------------- properties
RowIds == 0..(total - 1)

\* Number of failure records written for row i
RecordsOf(i) == Cardinality({k \in 1..Len(error_rows) : error_rows[k].row = i})

\* Number of times row i was counted in sent_rows
SentCount(i) == Cardinality({k \in 1..Len(sent_log) : sent_log[k] = i})

\* Row i has a failure record with this error text
HasRecord(i, err) == \E k \in 1..Len(error_rows) :
    error_rows[k].row = i /\ error_rows[k].error = err

\* Rows with an address and renderable templates
ValidRows == {i \in RowIds : Strip(Row(i).email) # "" /\ Row(i).tpl_ok}

\* Least n with n * bs >= n_rows
CeilDiv(n_rows, bs) == CHOOSE n \in 0..n_rows : n * bs >= n_rows /\ (n - 1) * bs < n_rows

\* Window w's session was opened (__enter__ returned) and no quit was
\* attempted on it yet
SessionOpen(w) ==
    /\ \E k \in 1..Len(open_log) : open_log[k] = [w |-> w, res |-> "ok"]
    /\ conn[w] = "open"

TypeOK ==
    /\ pc \in {"batch", "row", "attempt", "exit", "except", "done"}
    /\ sent_rows \in Nat /\ failed_rows \in Nat
    /\ sent_rows = Len(sent_log)
    /\ failed_rows = Len(error_rows)

\* C1: when the run ends every recipient has exactly one recorded outcome:
\* sent + failed equals the number of recipients and no recipient is counted
\* twice.  (Fails: after an exception leaves the with-block the batch-level
\* except records every row of the window, resolved or not.)
C1_OneOutcomePerRecipient ==
    pc = "done" =>
        /\ sent_rows + failed_rows = total
        /\ \A i \in RowIds : RecordsOf(i) + SentCount(i) = 1

\* C2: a recipient whose every send attempt fails transiently (no code or a
\* 4xx code) is recorded as a failure after exactly max_retries + 1 attempts.
\* (Fails: the loop gives up when attempts >= max_retries.)
C2_TransientAttempts ==
    \A i \in RowIds :
        (/\ HasRecord(i, "smtp_error")
         /\ \A k \in 1..Len(send_log[i]) :
               /\ send_log[i][k].res = "caught"
               /\ send_log[i][k].code \in {NoCode, 450})
        => Len(send_log[i]) = max_retries + 1

C4_BatchOnlyUnresolved ==
    \A k \in 1..Len(error_rows) :
        error_rows[k].error = "batch_error" =>
            /\ SentCount(error_rows[k].row) = 0
            /\ RecordsOf(error_rows[k].row) = 1

\* C5: in dry_run mode no network operation is performed: no connection, no
\* TLS upgrade, no login, no send.  (Fails: the session is opened before the
\* dry_run test.)
C5_DryRunNoNetwork ==
    dry_run => net_ops = {}

\* C6: in dry_run mode the final ledger depends only on the recipients and
\* templates: valid rows are sent, the others failed, and the failure log
\* holds only missing-email and template records.  (Fails: a failed session
\* open turns the whole window into batch failures.)
C6_DryRunLedger ==
    (pc = "done" /\ dry_run) =>
        /\ sent_rows = Cardinality(ValidRows)
        /\ failed_rows = total - Cardinality(ValidRows)
        /\ \A k \in 1..Len(error_rows) :
              error_rows[k].error \in {"missing recipient email", "template_error"}

\* C7: the run attempts to open exactly ceil(total / batch_size) sessions,
\* one per window, in window order; an opened session is closed before the
\* next open, so at most one session is open at any time.
C7_SessionsPerWindow ==
    /\ \A k \in 1..Len(open_log) : open_log[k].w = k - 1
    /\ Len(open_log) = (IF pc \in {"batch", "done"} THEN b ELSE b + 1)
    /\ pc = "done" => Len(open_log) = CeilDiv(total, batch_size)
    /\ Len(open_log) <= CeilDiv(total, batch_size)
    /\ \A w \in DOMAIN conn :
          SessionOpen(w) => (w = b /\ pc \in {"row", "attempt", "exit"})
    /\ \A w \in DOMAIN conn :
          (w = b /\ pc \in {"row", "attempt", "exit"}) => SessionOpen(w)

\* C7 witness: a finished run of 2 recipients with batch_size 1, with two
\* sessions opened and closed.
C7_Witness ==
    /\ pc = "done"
    /\ total = 2
    /\ batch_size = 1
    /\ Len(open_log) = 2
    /\ \A k \in 1..2 : open_log[k].res = "ok"
    /\ \A w \in DOMAIN conn : conn[w] \in {"quit", "quit_err"}

\* C8: every transport connection that was established has quit attempted
\* on it on every exit path, also when STARTTLS or login fails after the
\* connection was made.  (Fails: __exit__ does not run when __enter__ raises.)
C8_EveryConnectionQuit ==
    \A w \in DOMAIN conn :
        (w < b \/ pc \in {"except", "done"}) => conn[w] # "open"

\* C9: every recipient with an empty email ends with a failure record
\* "missing recipient email" (code null) and is never sent, whatever happens
\* to its window's session.  (Fails: after a failed open the row gets a
\* batch_error record only.)
C9_MissingEmailRecord ==
    \A i \in RowIds :
        Strip(Row(i).email) = "" =>
            /\ send_log[i] = <<>>
            /\ pc = "done" =>
                  \E k \in 1..Len(error_rows) :
                      /\ error_rows[k].row = i
                      /\ error_rows[k].error = "missing recipient email"
                      /\ error_rows[k].code = NoCode

\* C10: no two Session.send invocations on the same session are less than
\* delay = 60 / rate_per_min apart, failed attempts and retries included.
\* (Fails: last_sent moves only on success, and backoff(1) can be shorter
\* than delay.)
C10_SendSpacing ==
    last_gap = -1 \/ last_gap >= delay

\* Window of row i
WindowOf(i) == i \div batch_size

\* __enter__ returned for window w
OpenedOK(w) == \E k \in 1..Len(open_log) : open_log[k] = [w |-> w, res |-> "ok"]

\* A Session.send invocation for row i raised an exception the retry loop
\* does not catch
Raised(i) == \E k \in 1..Len(send_log[i]) : send_log[i][k].res = "raise"

\* C11: the records of the failure log appear in strictly increasing
\* recipient index, also when a window is abandoned.  (Fails: the batch-level
\* except starts again at start_i, after records of the same window.)
C11_FailureLogOrdered ==
    \A j, k \in 1..Len(error_rows) :
        j < k => error_rows[j].row < error_rows[k].row

\* C12: a failure that belongs to one recipient never changes the outcome of
\* another: a recipient recorded as sent has no failure record, and in a
\* window whose session was opened every recipient other than one whose own
\* send raised gets no batch-failure record.  (Fails: an exception of
\* Session.send outside the except clause abandons the window.)
C12_RecipientScoped ==
    \A i \in RowIds :
        /\ SentCount(i) >= 1 => RecordsOf(i) = 0
        /\ (OpenedOK(WindowOf(i)) /\ ~Raised(i)) => ~HasRecord(i, "batch_error")

\* x ** n for a natural n
RECURSIVE Pow(_, _)
Pow(x, n) == IF n = 0 THEN 1 ELSE x * Pow(x, n - 1)

\* C13: for every attempt >= 1 the wait of backoff before jitter is
\* min(cap, 1.5 ** (attempt - 1)) seconds with cap = 60, it never exceeds the
\* cap and is non-decreasing in attempt; the returned wait is that value
\* changed by exactly +20% or -20% and is never negative.
C13_Backoff ==
    bk.wait # -1 =>
        LET n == bk.attempt - 1 IN
        /\ IF Pow(3, n) < 60 * Pow(2, n)
           THEN bk.wait * Pow(2, n) = Pow(3, n) * TicksPerSec
           ELSE bk.wait = 60 * TicksPerSec
        /\ bk.wait <= 60 * TicksPerSec
        /\ (bk.prev_attempt >= 1 /\ bk.prev_attempt <= bk.attempt)
              => bk.prev_wait <= bk.wait
        /\ (bk.prev_attempt >= 1 /\ bk.prev_attempt >= bk.attempt)
              => bk.prev_wait >= bk.wait
        /\ 5 * bk.ret \in {4 * bk.wait, 6 * bk.wait}
        /\ (bk.bit = 1 => 5 * bk.ret = 6 * bk.wait)
        /\ (bk.bit = 0 => 5 * bk.ret = 4 * bk.wait)
        /\ bk.ret >= 0

\* C13 witness: a call whose wait is the cap, after a call with a smaller
\* attempt whose wait was below the cap.
C13_Witness ==
    /\ bk.wait = 60 * TicksPerSec
    /\ bk.prev_attempt >= 1
    /\ bk.prev_attempt < bk.attempt
    /\ bk.prev_wait < bk.wait
    /\ bk.ret = 72 * TicksPerSec

\* C14: every Session.send is invoked at least delay = 60 / rate_per_min
\* after the previous successful send on the same session returned, and a
\* rate-limit step sleeps only when a send succeeded on the session before
\* it: the first send of a session never waits.
C14_PacedAfterSuccess ==
    /\ ok_gap = -1 \/ ok_gap >= delay
    /\ last_wait.slept > 0 => ~last_wait.first
    /\ last_wait.slept <= delay

\* C14 witness: two successful sends on one session, the second after a
\* rate-limit sleep.
C14_Witness ==
    /\ batch_size = 2
    /\ sent_rows = 2
    /\ ~dry_run
    /\ last_wait.slept > 0
    /\ ok_gap >= delay

\* C15: a connection-level failure aborts only its window: batch-failure
\* records go to rows of a window whose open failed or in which a send
\* raised, every window gets its own open attempt in order, and in every
\* other window each recipient ends with exactly one outcome of its own.
C15_WindowScoped ==
    /\ \A k \in 1..Len(error_rows) :
          error_rows[k].error = "batch_error" =>
              LET w == WindowOf(error_rows[k].row) IN
              \/ ~OpenedOK(w)
              \/ \E i \in RowIds : WindowOf(i) = w /\ Raised(i)
    /\ \A j, k \in 1..Len(open_log) : j < k => open_log[j].w < open_log[k].w
    /\ pc = "done" =>
          /\ \A w \in 0..(batches - 1) : \E k \in 1..Len(open_log) : open_log[k].w = w
          /\ \A i \in RowIds :
                (OpenedOK(WindowOf(i)) /\ \A j \in RowIds : WindowOf(j) = WindowOf(i) => ~Raised(j))
                => RecordsOf(i) + SentCount(i) = 1

\* C15 witness: the open of the first window failed, the second window was
\* opened and its recipient sent.
C15_Witness ==
    /\ pc = "done"
    /\ total = 2
    /\ batch_size = 1
    /\ open_log[1].res # "ok"
    /\ open_log[2].res = "ok"
    /\ HasRecord(0, "batch_error")
    /\ SentCount(1) = 1
    /\ RecordsOf(1) = 0

\* The row about to be processed has an address and its templates do not
\* render.
TemplateStep == pc = "row" /\ to_addr # "" /\ ~Row(idx).tpl_ok

\* C16: a template render error appends one failure record for the
\* recipient, invokes no send and no rate-limit wait, leaves the session
\* open, and the next recipient of the window is processed on the same
\* session.
C16_TemplateFailure ==
    /\ [][TemplateStep =>
            /\ error_rows' = Append(error_rows,
                  [row |-> idx, email |-> to_addr, code |-> NoCode,
                   error |-> "template_error"])
            /\ failed_rows' = failed_rows + 1
            /\ sent_rows' = sent_rows
            /\ send_log' = send_log
            /\ net_ops' = net_ops
            /\ now' = now
            /\ waited' = waited
            /\ last_wait' = last_wait
            /\ conn' = conn
            /\ server' = server
            /\ b' = b
            /\ idx' = idx + 1
            /\ (idx + 1 < end_i => pc' = "row")]_vars
    /\ [](\A i \in RowIds :
            (Strip(Row(i).email) # "" /\ ~Row(i).tpl_ok) =>
                /\ send_log[i] = <<>>
                /\ SentCount(i) = 0
                /\ Cardinality({k \in 1..Len(error_rows) :
                       error_rows[k].row = i /\
                       error_rows[k].error = "template_error"}) <= 1)

\* C16 witness: after a template failure of the first recipient the second
\* one was sent on the same (the only) session.
C16_Witness ==
    /\ total = 2
    /\ HasRecord(0, "template_error")
    /\ Len(open_log) = 1
    /\ SentCount(1) = 1
    /\ \E r \in send_via[1] : r.w = 0 /\ r.conn = "open"

\* C17: Session.send is invoked only on a session whose __enter__ returned
\* and on which quit was not attempted, and row i only on the session of
\* window floor(i / batch_size).
C17_SendOnOwnSession ==
    \A i \in RowIds : \A r \in send_via[i] :
        /\ r.w * batch_size <= i
        /\ i < (r.w + 1) * batch_size
        /\ r.conn = "open"
        /\ r.entered

\* C17 witness: two windows, each recipient sent through its own session,
\* after the first session was closed.
C17_Witness ==
    /\ total = 2
    /\ batch_size = 1
    /\ send_via[0] # {}
    /\ send_via[1] # {}
    /\ conn[0] \in {"quit", "quit_err"}

\* C19: last_sent changes only when a real send succeeds (to the time the
\* send returned) and when a session starts (to 0); in dry_run mode it never
\* leaves 0, no rate-limit sleep is taken and the clock does not move.
C19_BaselineFrame ==
    /\ [][last_sent' # last_sent =>
            \/ /\ pc = "attempt"
               /\ ~dry_run
               /\ sent_rows' = sent_rows + 1
               /\ last_sent' = now'
            \/ /\ pc = "batch"
               /\ pc' = "row"
               /\ last_sent' = 0]_vars
    /\ [](dry_run => (waited = 0 /\ last_sent = 0 /\ now = StartTime))

\* C19 witness: a dry run counted two recipients of one window without any
\* rate-limit sleep.
C19_Witness ==
    /\ dry_run
    /\ batch_size = 2
    /\ sent_rows = 2
    /\ waited = 0
    /\ pc = "done"

\* The row's unsubscribe_url is present and not empty
RowUrlNonEmpty == hd.has_col /\ hd.cell # "NaN" /\ StripCell(hd.cell) # ""

\* Header k of the message is v
MsgHas(k, v) == k \in DOMAIN hd.msg /\ hd.msg[k] = v

\* C18: the message carries the static Reply-To and List-Unsubscribe (with
\* List-Unsubscribe-Post) when configured; the row's unsubscribe_url as
\* List-Unsubscribe with List-Unsubscribe-Post exactly when no static
\* List-Unsubscribe is configured and the row's unsubscribe_url is
\* non-empty; otherwise neither header, and never List-Unsubscribe-Post
\* without List-Unsubscribe.  (Fails for a cell of white space: the stripped
\* URL is empty, Session.send drops it and keeps List-Unsubscribe-Post.)
C18_MessageHeaders ==
    hd.phase = "sent" =>
        /\ IF hd.reply_to # "" THEN MsgHas("Reply-To", hd.reply_to)
           ELSE "Reply-To" \notin DOMAIN hd.msg
        /\ hd.list_unsub # "" =>
              /\ MsgHas("List-Unsubscribe", hd.list_unsub)
              /\ MsgHas("List-Unsubscribe-Post", OneClick)
        /\ (hd.list_unsub = "" /\ RowUrlNonEmpty) =>
              /\ MsgHas("List-Unsubscribe", StripCell(hd.cell))
              /\ MsgHas("List-Unsubscribe-Post", OneClick)
        /\ (hd.list_unsub = "" /\ ~RowUrlNonEmpty) =>
              /\ "List-Unsubscribe" \notin DOMAIN hd.msg
              /\ "List-Unsubscribe-Post" \notin DOMAIN hd.msg
        /\ "List-Unsubscribe-Post" \in DOMAIN hd.msg =>
              "List-Unsubscribe" \in DOMAIN hd.msg

\* Most attempts the retry loop makes for one recipient
MaxTries == Max(1, max_retries)

\* Rows of window w
WindowSize(w) == Min(total, (w + 1) * batch_size) - w * batch_size

\* Most steps the windows w, w + 1, ... can still take: per window the
\* open, the exit and the batch-level except, per row the rate limit and
\* MaxTries attempts.
RECURSIVE RestFrom(_)
RestFrom(w) ==
    IF w >= batches THEN 0
    ELSE WindowSize(w) * (MaxTries + 1) + 3 + RestFrom(w + 1)

\* Most steps the run can still take
Rank ==
    CASE pc = "batch" -> 1 + RestFrom(b)
      [] pc = "row" -> 3 + RestFrom(b + 1) + (end_i - idx) * (MaxTries + 1)
      [] pc = "attempt" -> 3 + RestFrom(b + 1) + (end_i - idx - 1) * (MaxTries + 1)
                             + (MaxTries - attempts)
      [] pc = "exit" -> 3 + RestFrom(b + 1)
      [] pc = "except" -> 2 + RestFrom(b + 1)
      [] OTHER -> 0

\* C20: the run terminates: every step lowers Rank, a bound on the steps
\* left that is never negative and is 0 only when the totals are reported;
\* a run that has not finished can always take a step; no recipient gets
\* more than max(1, max_retries) attempts; and the run ends after the last
\* window.
C20_Terminates ==
    /\ [][Rank' < Rank]_vars
    /\ [](/\ Rank >= 0
          /\ (Rank = 0 <=> pc = "done")
          /\ (pc # "done" => ENABLED Next)
          /\ \A i \in RowIds : Len(send_log[i]) <= MaxTries
          /\ (pc = "done" => b = batches))

\* C20 witness: a finished run in which a recipient failed transiently on
\* every attempt the retry loop allows.
C20_Witness ==
    /\ pc = "done"
    /\ max_retries = 2
    /\ \E i \in RowIds :
          /\ Len(send_log[i]) = 2
          /\ \A k \in 1..2 : send_log[i][k].res = "caught" /\ send_log[i][k].code = 450
          /\ HasRecord(i, "smtp_error")

====
